---- MODULE Spec2Model ----
(***************************************************************************)
(* The document lifecycle manager of src/lib/document.js: the hardened     *)
(* Document class (key rotation, notifications) and the baseline Document  *)
(* class that precedes it in the same file.                                *)
(*                                                                         *)
(* One document identifier is modelled.  Its metadata record (Files), its  *)
(* cached file and the uuidV4 generator are global; every Document         *)
(* instance has its own fields and its own position in the async method it *)
(* runs.  One step of an instance is what runs between two awaits: the     *)
(* completion (or failure) of the awaited call and the synchronous code    *)
(* that follows it up to the next awaited call.                            *)
(***************************************************************************)
EXTENDS Naturals, Sequences, FiniteSets

\* Number of keys uuidV4 can hand out before the model stops drawing.
MaxKeys == 2

Hardened == {"a", "b"}      \* instances of the hardened class
Baseline == {"c"}           \* instances of the baseline class
Inst == Hardened \cup Baseline

\* this.key of an instance that has none, and the key of a record without one.
NoKey == 0

VARIABLES
  store,      \* the metadata record of the identifier (Files collection)
  file,       \* whether a file exists at this.filePath
  nextKey,    \* the next value uuidV4() returns
  pc,         \* per instance: the await it is suspended on
  op,         \* per instance: the public method it is running
  state,      \* per instance: this.state
  key,        \* per instance: this.key
  meta,       \* per instance: the remote metadata merged into this
  err,        \* per instance: the error caught by save()
  result,     \* per instance: how the running method ended
  events,     \* per instance: what the running method published on pubsub
  payload,    \* per instance: what buildDocumentserverPayload() returned
  token,      \* per instance: the token attached to that payload
  everKeys,   \* history: every key the record has ever held
  preKey,     \* history: the stored key when remove() was entered
  hadRecord,  \* history: whether a record existed when the method was called
  foundState, \* history: the stored state when the method was called
  keySync,    \* history: this.key was read from / written to the record and
              \*          the stored key has not been written since
  stateSync   \* history: the same for this.state

globals == <<store, file, nextKey, everKeys>>
fields == <<state, key, meta>>
control == <<pc, op, err, result, events, payload, token>>
history == <<preKey, hadRecord, foundState, keySync, stateSync>>
vars == <<store, file, nextKey, pc, op, state, key, meta, err, result, events,
          payload, token, everKeys, preKey, hadRecord, foundState, keySync,
          stateSync>>

----------------------------------------------------------------------------
(* The metadata store (lib/files) and the helpers, as the spec describes   *)
(* them: one record per identifier, created once, updated in place.        *)

NoRec == [exists |-> FALSE, state |-> "none", key |-> NoKey]

getByUuid == store.exists

\* An update changes the fields of the patch on an existing record and does
\* nothing when there is no record (setState creates in that case).
updateByUuid(rec, patch) ==
  IF rec.exists
    THEN [f \in DOMAIN rec |-> IF f \in DOMAIN patch THEN patch[f] ELSE rec[f]]
    ELSE rec

create(doc) == [exists |-> TRUE, state |-> doc.state, key |-> doc.key]

removeByUuid == NoRec

\* The key a record holds, as a set.
Held(rec) == IF rec.exists /\ rec.key # NoKey THEN {rec.key} ELSE {}

NoPayload == [built |-> FALSE, key |-> NoKey, url |-> FALSE, title |-> FALSE]
NoMeta == [named |-> FALSE, urls |-> FALSE]
NoToken == [enable |-> FALSE, present |-> FALSE, over |-> NoPayload]

Init ==
  /\ store = NoRec
  /\ file = FALSE
  /\ nextKey = 1
  /\ pc = [i \in Inst |-> "idle"]
  /\ op = [i \in Inst |-> "none"]
  /\ state = [i \in Inst |-> "none"]
  /\ key = [i \in Inst |-> NoKey]
  /\ meta = [i \in Inst |-> NoMeta]
  /\ err = [i \in Inst |-> "none"]
  /\ result = [i \in Inst |-> "none"]
  /\ events = [i \in Inst |-> <<>>]
  /\ payload = [i \in Inst |-> NoPayload]
  /\ token = [i \in Inst |-> NoToken]
  /\ everKeys = {}
  /\ preKey = [i \in Inst |-> NoKey]
  /\ hadRecord = [i \in Inst |-> FALSE]
  /\ foundState = [i \in Inst |-> "none"]
  /\ keySync = [i \in Inst |-> FALSE]
  /\ stateSync = [i \in Inst |-> FALSE]

----------------------------------------------------------------------------
(* The hardened Document class.                                            *)

\* Mutant: only the existence of the file is checked.
isDownloadedFileOnly(i) == file

isDownloaded(i) == file /\ state[i] = "downloaded"

isDownloading(i) == state[i] = "downloading"

\* Mutant: the payload is built without the key.
buildPayloadWithoutKey(i) ==
  [built |-> TRUE, key |-> NoKey, url |-> meta[i].urls, title |-> meta[i].named]

\* The fields of the payload that depend on the instance.
buildDocumentserverPayload(i) ==
  [built |-> TRUE, key |-> key[i], url |-> meta[i].urls, title |-> meta[i].named]

\* Mutant: a token is attached whatever the configuration says.
attachTokenAlways(p, enable) == [enable |-> enable, present |-> TRUE, over |-> p]

\* What buildDocumentserverPayload() returns next to the payload p: nothing
\* when documentServer.signature.browser.enable is not set, otherwise the
\* token generateToken(payload, ...) computes from p.
attachToken(p, enable) ==
  IF ~enable
    THEN [enable |-> enable, present |-> FALSE, over |-> NoPayload]
    ELSE [enable |-> enable, present |-> TRUE, over |-> p]

\* Mutant: remove() sets the state and leaves the key.
removePatchKeepsKey(k) == [state |-> "removed"]

\* What remove() writes to the record, k being the value of uuidV4().
removePatch(k) == [state |-> "removed", key |-> k]

\* Mutant: remove() deletes the record, as the baseline class does.
removeRecordDeletes(rec, k) == removeByUuid

\* The record after the metadata call of remove().
removeRecord(rec, k) == updateByUuid(rec, removePatch(k))

\* Mutant: save() records the state it had before the hardening.
savedStateDownloading == "downloading"

\* The state save() sets once the file is written.
savedState == "downloaded"

\* Mutant: setState() writes the record without its key.
setStatePatchResetsKey(s) == [state |-> s, key |-> NoKey]

\* What setState(s) writes to an existing record.
setStatePatch(s) == [state |-> s]

\* Mutant: the file is deleted before the record is updated.
RemoveStepsDeleteFirst == <<"rm_delete", "rm_update">>

\* The awaited calls of remove(), in the order it makes them.
RemoveSteps == <<"rm_update", "rm_delete">>

\* new Document(...): a fresh instance with no state and no key.
Fresh(i) ==
  /\ pc' = [pc EXCEPT ![i] = "idle"]
  /\ op' = [op EXCEPT ![i] = "none"]
  /\ state' = [state EXCEPT ![i] = "none"]
  /\ key' = [key EXCEPT ![i] = NoKey]
  /\ meta' = [meta EXCEPT ![i] = NoMeta]
  /\ err' = [err EXCEPT ![i] = "none"]
  /\ result' = [result EXCEPT ![i] = "none"]
  /\ events' = [events EXCEPT ![i] = <<>>]
  /\ payload' = [payload EXCEPT ![i] = NoPayload]
  /\ token' = [token EXCEPT ![i] = NoToken]
  /\ preKey' = [preKey EXCEPT ![i] = NoKey]
  /\ hadRecord' = [hadRecord EXCEPT ![i] = FALSE]
  /\ foundState' = [foundState EXCEPT ![i] = "none"]
  /\ keySync' = [keySync EXCEPT ![i] = FALSE]
  /\ stateSync' = [stateSync EXCEPT ![i] = FALSE]
  /\ UNCHANGED globals

Construct(i) ==
  /\ pc[i] = "idle"
  /\ Fresh(i)

\* The process running the instance stops between two awaits; the record and
\* the file stay as they are and the next request constructs a new instance.
Crash(i) ==
  /\ pc[i] \notin {"idle", "done", "built"}
  /\ Fresh(i)

\* A lookup that rejects leaves the instance as it was, like a lookup that
\* finds no record.
load(i) ==
  /\ pc[i] = "idle"
  /\ IF getByUuid
       THEN /\ state' = [state EXCEPT ![i] = store.state]
            /\ key' = [key EXCEPT ![i] = store.key]
            /\ keySync' = [keySync EXCEPT ![i] = TRUE]
            /\ stateSync' = [stateSync EXCEPT ![i] = TRUE]
       ELSE UNCHANGED <<state, key, keySync, stateSync>>
  /\ UNCHANGED <<globals, meta, control, preKey, hadRecord, foundState>>

\* The catch block of save(): the error is kept and remove() is entered.
Catch(i, e) ==
  /\ err' = [err EXCEPT ![i] = e]
  /\ pc' = [pc EXCEPT ![i] = RemoveSteps[1]]
  /\ preKey' = [preKey EXCEPT ![i] = store.key]

StartSave(i) ==
  /\ pc[i] = "idle"
  /\ pc' = [pc EXCEPT ![i] = "dl"]
  /\ op' = [op EXCEPT ![i] = "save"]
  /\ hadRecord' = [hadRecord EXCEPT ![i] = store.exists]
  /\ foundState' = [foundState EXCEPT ![i] = store.state]
  /\ UNCHANGED <<globals, fields, err, result, events, payload, token, preKey,
                 keySync, stateSync>>

\* await this.storageService.downloadDocument(...)
Download(i) ==
  /\ pc[i] = "dl"
  /\ \/ /\ pc' = [pc EXCEPT ![i] = "wr"]
        /\ UNCHANGED <<err, preKey>>
     \/ Catch(i, "downloadDocument")
  /\ UNCHANGED <<globals, fields, op, result, events, payload, token,
                 hadRecord, foundState, keySync, stateSync>>

\* await writeFile(...), then setState(downloaded) up to its lookup.  A write
\* that fails may have left bytes at the path.
WriteFile(i) ==
  /\ pc[i] = "wr"
  /\ \/ /\ file' = TRUE
        /\ state' = [state EXCEPT ![i] = savedState]
        /\ stateSync' = [stateSync EXCEPT ![i] = @ /\ state[i] = savedState]
        /\ pc' = [pc EXCEPT ![i] = "ss_get"]
        /\ UNCHANGED <<err, preKey>>
     \/ /\ file' \in {file, TRUE}
        /\ Catch(i, "writeFile")
        /\ UNCHANGED <<state, stateSync>>
  /\ UNCHANGED <<store, nextKey, everKeys, key, meta, op, result, events,
                 payload, token, hadRecord, foundState, keySync>>

\* await Files.getByUuid(this.uuid) in setState, and the branch taken on it.
SetStateGet(i) ==
  /\ pc[i] = "ss_get"
  /\ \/ /\ getByUuid
        /\ pc' = [pc EXCEPT ![i] = "ss_update"]
        /\ UNCHANGED <<key, nextKey, keySync, err, preKey>>
     \/ /\ ~getByUuid
        /\ nextKey <= MaxKeys
        /\ key' = [key EXCEPT ![i] = nextKey]
        /\ nextKey' = nextKey + 1
        /\ keySync' = [keySync EXCEPT ![i] = FALSE]
        /\ pc' = [pc EXCEPT ![i] = "ss_create"]
        /\ UNCHANGED <<err, preKey>>
     \/ /\ Catch(i, "getByUuid")
        /\ UNCHANGED <<key, nextKey, keySync>>
  /\ UNCHANGED <<store, file, everKeys, state, meta, op, result, events,
                 payload, token, hadRecord, foundState, stateSync>>

\* await Files.updateByUuid(this.uuid, { state }), then populateMetadata up
\* to its remote call.
SetStateUpdate(i) ==
  /\ pc[i] = "ss_update"
  /\ \/ /\ store' = updateByUuid(store, setStatePatch(state[i]))
        /\ stateSync' = IF store.exists
                          THEN [j \in Inst |-> IF j = i THEN TRUE
                                  ELSE stateSync[j] /\ store'.state = store.state]
                          ELSE stateSync
        /\ keySync' = IF store.exists
                        THEN [j \in Inst |-> keySync[j] /\ store'.key = store.key]
                        ELSE keySync
        /\ everKeys' = everKeys \cup Held(store')
        /\ pc' = [pc EXCEPT ![i] = "pm"]
        /\ UNCHANGED <<err, preKey>>
     \/ /\ Catch(i, "updateByUuid")
        /\ UNCHANGED <<store, stateSync, keySync, everKeys>>
  /\ UNCHANGED <<file, nextKey, fields, op, result, events, payload, token,
                 hadRecord, foundState>>

\* await Files.create(this), then populateMetadata up to its remote call.
SetStateCreate(i) ==
  /\ pc[i] = "ss_create"
  /\ \/ /\ store' = create([state |-> state[i], key |-> key[i]])
        /\ everKeys' = everKeys \cup Held(store')
        /\ keySync' = [j \in Inst |-> j = i]
        /\ stateSync' = [j \in Inst |-> j = i]
        /\ pc' = [pc EXCEPT ![i] = "pm"]
        /\ UNCHANGED <<err, preKey>>
     \/ /\ Catch(i, "create")
        /\ UNCHANGED <<store, everKeys, keySync, stateSync>>
  /\ UNCHANGED <<file, nextKey, fields, op, result, events, payload, token,
                 hadRecord, foundState>>

\* await this.storageService.getNode(...) in populateMetadata, the merge of
\* the document into this, and the publication that ends save().  The remote
\* node carries no state and no key, so the merge leaves both as they are.
PopulateMetadata(i) ==
  /\ pc[i] = "pm"
  /\ \/ /\ meta' = [meta EXCEPT ![i] =
                      [named |-> TRUE, urls |-> @.urls \/ isDownloaded(i)]]
        /\ events' = [events EXCEPT ![i] =
                        Append(@, [topic |-> "DOCUMENT_DOWNLOADED", error |-> "none"])]
        /\ result' = [result EXCEPT ![i] = "ok"]
        /\ pc' = [pc EXCEPT ![i] = "done"]
        /\ UNCHANGED <<err, preKey>>
     \/ /\ \E e \in {"Document not found", "getNode"} : Catch(i, e)
        /\ UNCHANGED <<meta, events, result>>
  /\ UNCHANGED <<globals, state, key, op, payload, token, hadRecord,
                 foundState, keySync, stateSync>>

StartRemove(i) ==
  /\ pc[i] = "idle"
  /\ pc' = [pc EXCEPT ![i] = RemoveSteps[1]]
  /\ op' = [op EXCEPT ![i] = "remove"]
  /\ preKey' = [preKey EXCEPT ![i] = store.key]
  /\ hadRecord' = [hadRecord EXCEPT ![i] = store.exists]
  /\ foundState' = [foundState EXCEPT ![i] = store.state]
  /\ UNCHANGED <<globals, fields, err, result, events, payload, token,
                 keySync, stateSync>>

\* remove() has made its last call: inside save() the failure is published
\* and the caught error rethrown, otherwise remove() returns.
RemoveReturns(i) ==
  /\ pc' = [pc EXCEPT ![i] = "done"]
  /\ IF op[i] = "save"
       THEN /\ events' = [events EXCEPT ![i] =
                   Append(@, [topic |-> "DOCUMENT_DOWNLOAD_FAILED", error |-> err[i]])]
            /\ result' = [result EXCEPT ![i] = err[i]]
       ELSE /\ result' = [result EXCEPT ![i] = "ok"]
            /\ UNCHANGED events

\* A call of remove() throws: the exception leaves remove() and, inside the
\* catch block of save(), leaves save() before anything is published.
RemoveThrows(i, e) ==
  /\ pc' = [pc EXCEPT ![i] = "done"]
  /\ result' = [result EXCEPT ![i] = e]
  /\ UNCHANGED events

RemoveNext(i, step) ==
  IF step = RemoveSteps[1]
    THEN /\ pc' = [pc EXCEPT ![i] = RemoveSteps[2]]
         /\ UNCHANGED <<result, events>>
    ELSE RemoveReturns(i)

\* await Files.updateByUuid(this.uuid, { state: removed, key: uuidV4() })
RemoveUpdate(i) ==
  /\ pc[i] = "rm_update"
  /\ nextKey <= MaxKeys
  /\ nextKey' = nextKey + 1
  /\ \/ /\ store' = removeRecord(store, nextKey)
        /\ everKeys' = everKeys \cup Held(store')
        /\ keySync' = IF store.exists
                        THEN [j \in Inst |-> keySync[j] /\ store'.key = store.key]
                        ELSE keySync
        /\ stateSync' = IF store.exists
                          THEN [j \in Inst |-> stateSync[j] /\ store'.state = store.state]
                          ELSE stateSync
        /\ RemoveNext(i, "rm_update")
     \/ /\ RemoveThrows(i, "remove.updateByUuid")
        /\ UNCHANGED <<store, everKeys, keySync, stateSync>>
  /\ UNCHANGED <<file, fields, op, err, payload, token, preKey, hadRecord,
                 foundState>>

\* await deleteFile(this.filePath)
RemoveDelete(i) ==
  /\ pc[i] = "rm_delete"
  /\ \/ /\ file' = FALSE
        /\ RemoveNext(i, "rm_delete")
     \/ /\ RemoveThrows(i, "deleteFile")
        /\ UNCHANGED file
  /\ UNCHANGED <<store, nextKey, everKeys, fields, op, err, payload, token,
                 history>>

\* buildDocumentserverPayload() under either setting of the signature.
Build(i) ==
  /\ pc[i] = "idle"
  /\ payload' = [payload EXCEPT ![i] = buildDocumentserverPayload(i)]
  /\ \E enable \in BOOLEAN :
       token' = [token EXCEPT
                   ![i] = attachToken(buildDocumentserverPayload(i), enable)]
  /\ pc' = [pc EXCEPT ![i] = "built"]
  /\ op' = [op EXCEPT ![i] = "build"]
  /\ UNCHANGED <<globals, fields, err, result, events, history>>

\* The caller has received the result of the method.
Return(i) ==
  /\ pc[i] \in {"done", "built"}
  /\ pc' = [pc EXCEPT ![i] = "idle"]
  /\ op' = [op EXCEPT ![i] = "none"]
  /\ err' = [err EXCEPT ![i] = "none"]
  /\ result' = [result EXCEPT ![i] = "none"]
  /\ events' = [events EXCEPT ![i] = <<>>]
  /\ payload' = [payload EXCEPT ![i] = NoPayload]
  /\ token' = [token EXCEPT ![i] = NoToken]
  /\ preKey' = [preKey EXCEPT ![i] = NoKey]
  /\ hadRecord' = [hadRecord EXCEPT ![i] = FALSE]
  /\ foundState' = [foundState EXCEPT ![i] = "none"]
  /\ UNCHANGED <<globals, fields, keySync, stateSync>>

\* The steps of a method that has been called.
Step(i) ==
  \/ Download(i)
  \/ WriteFile(i)
  \/ SetStateGet(i)
  \/ SetStateUpdate(i)
  \/ SetStateCreate(i)
  \/ PopulateMetadata(i)
  \/ RemoveUpdate(i)
  \/ RemoveDelete(i)
  \/ Return(i)
  \/ Crash(i)

\* Two instances of the hardened class on the same identifier, their awaits
\* interleaved in any order.
Next ==
  \E i \in Hardened :
    \/ Construct(i)
    \/ load(i)
    \/ StartSave(i)
    \/ StartRemove(i)
    \/ Build(i)
    \/ Step(i)

Spec == Init /\ [][Next]_vars

\* No other instance is inside a method.
Quiet(i) == \A j \in Inst \ {i} : pc[j] = "idle"

SeqConstruct(i) == Quiet(i) /\ Construct(i)
SeqLoad(i) == Quiet(i) /\ load(i)
SeqStartSave(i) == Quiet(i) /\ StartSave(i)
SeqStartRemove(i) == Quiet(i) /\ StartRemove(i)
SeqBuild(i) == Quiet(i) /\ Build(i)

\* The same instances, each method running to its end before the next call.
NextSeq ==
  \E i \in Hardened :
    \/ SeqConstruct(i)
    \/ SeqLoad(i)
    \/ SeqStartSave(i)
    \/ SeqStartRemove(i)
    \/ SeqBuild(i)
    \/ Step(i)

SpecSeq == Init /\ [][NextSeq]_vars

----------------------------------------------------------------------------
(* The baseline Document class: no key, state downloading written before   *)
(* the download, and a remove() that deletes the record.                   *)

\* The catch block of the baseline save(): remove() is entered.
BaseCatch(i, e) ==
  /\ err' = [err EXCEPT ![i] = e]
  /\ pc' = [pc EXCEPT ![i] = "b_rm_remove"]

loadState(i) ==
  /\ pc[i] = "idle"
  /\ IF getByUuid
       THEN /\ state' = [state EXCEPT ![i] = store.state]
            /\ stateSync' = [stateSync EXCEPT ![i] = TRUE]
       ELSE UNCHANGED <<state, stateSync>>
  /\ UNCHANGED <<globals, key, meta, control, preKey, hadRecord, foundState,
                 keySync>>

\* save() up to the lookup of setState(downloading).
BaseStartSave(i) ==
  /\ pc[i] = "idle"
  /\ pc' = [pc EXCEPT ![i] = "b_ss_get"]
  /\ op' = [op EXCEPT ![i] = "save"]
  /\ state' = [state EXCEPT ![i] = "downloading"]
  /\ stateSync' = [stateSync EXCEPT ![i] = @ /\ state[i] = "downloading"]
  /\ hadRecord' = [hadRecord EXCEPT ![i] = store.exists]
  /\ foundState' = [foundState EXCEPT ![i] = store.state]
  /\ UNCHANGED <<globals, key, meta, err, result, events, payload, token,
                 preKey, keySync>>

\* await Files.getByUuid(this.uuid) in setState, and the branch taken on it.
BaseSetStateGet(i) ==
  /\ pc[i] = "b_ss_get"
  /\ \/ /\ pc' = [pc EXCEPT ![i] = IF getByUuid THEN "b_ss_update" ELSE "b_ss_create"]
        /\ UNCHANGED err
     \/ BaseCatch(i, "getByUuid")
  /\ UNCHANGED <<globals, fields, op, result, events, payload, token,
                 history>>

\* setState has written: after downloading comes the download, after
\* downloaded save() returns.
BaseSetStateDone(i) ==
  IF state[i] = "downloading"
    THEN /\ pc' = [pc EXCEPT ![i] = "b_dl"]
         /\ UNCHANGED result
    ELSE /\ pc' = [pc EXCEPT ![i] = "done"]
         /\ result' = [result EXCEPT ![i] = "ok"]

\* await Files.updateByUuid(this.uuid, { state })
BaseSetStateUpdate(i) ==
  /\ pc[i] = "b_ss_update"
  /\ \/ /\ store' = updateByUuid(store, setStatePatch(state[i]))
        /\ stateSync' = IF store.exists
                          THEN [j \in Inst |-> IF j = i THEN TRUE
                                  ELSE stateSync[j] /\ store'.state = store.state]
                          ELSE stateSync
        /\ BaseSetStateDone(i)
        /\ UNCHANGED err
     \/ /\ BaseCatch(i, "updateByUuid")
        /\ UNCHANGED <<store, stateSync, result>>
  /\ UNCHANGED <<file, nextKey, everKeys, fields, op, events, payload, token,
                 preKey, hadRecord, foundState, keySync>>

\* await Files.create(this): the baseline instance has no key.
BaseSetStateCreate(i) ==
  /\ pc[i] = "b_ss_create"
  /\ \/ /\ store' = create([state |-> state[i], key |-> NoKey])
        /\ stateSync' = [j \in Inst |-> j = i]
        /\ keySync' = [j \in Inst |-> FALSE]
        /\ BaseSetStateDone(i)
        /\ UNCHANGED err
     \/ /\ BaseCatch(i, "create")
        /\ UNCHANGED <<store, stateSync, keySync, result>>
  /\ UNCHANGED <<file, nextKey, everKeys, fields, op, events, payload, token,
                 preKey, hadRecord, foundState>>

\* await this.storageService.downloadDocument(...)
BaseDownload(i) ==
  /\ pc[i] = "b_dl"
  /\ \/ /\ pc' = [pc EXCEPT ![i] = "b_wr"]
        /\ UNCHANGED err
     \/ BaseCatch(i, "downloadDocument")
  /\ UNCHANGED <<globals, fields, op, result, events, payload, token,
                 history>>

\* await writeFile(...), then setState(downloaded) up to its lookup.
BaseWriteFile(i) ==
  /\ pc[i] = "b_wr"
  /\ \/ /\ file' = TRUE
        /\ state' = [state EXCEPT ![i] = "downloaded"]
        /\ stateSync' = [stateSync EXCEPT ![i] = @ /\ state[i] = "downloaded"]
        /\ pc' = [pc EXCEPT ![i] = "b_ss_get"]
        /\ UNCHANGED err
     \/ /\ file' \in {file, TRUE}
        /\ BaseCatch(i, "writeFile")
        /\ UNCHANGED <<state, stateSync>>
  /\ UNCHANGED <<store, nextKey, everKeys, key, meta, op, result, events,
                 payload, token, preKey, hadRecord, foundState, keySync>>

BaseStartRemove(i) ==
  /\ pc[i] = "idle"
  /\ pc' = [pc EXCEPT ![i] = "b_rm_remove"]
  /\ op' = [op EXCEPT ![i] = "remove"]
  /\ hadRecord' = [hadRecord EXCEPT ![i] = store.exists]
  /\ foundState' = [foundState EXCEPT ![i] = store.state]
  /\ UNCHANGED <<globals, fields, err, result, events, payload, token, preKey,
                 keySync, stateSync>>

\* await Files.removeByUuid(this.uuid)
BaseRemoveRecord(i) ==
  /\ pc[i] = "b_rm_remove"
  /\ \/ /\ store' = removeByUuid
        /\ keySync' = IF store.exists THEN [j \in Inst |-> FALSE] ELSE keySync
        /\ stateSync' = IF store.exists THEN [j \in Inst |-> FALSE] ELSE stateSync
        /\ pc' = [pc EXCEPT ![i] = "b_rm_delete"]
        /\ UNCHANGED result
     \/ /\ pc' = [pc EXCEPT ![i] = "done"]
        /\ result' = [result EXCEPT ![i] = "remove.removeByUuid"]
        /\ UNCHANGED <<store, keySync, stateSync>>
  /\ UNCHANGED <<file, nextKey, everKeys, fields, op, err, events, payload,
                 token, preKey, hadRecord, foundState>>

\* await deleteFile(this.filePath); inside save() the caught error is then
\* rethrown.
BaseRemoveDelete(i) ==
  /\ pc[i] = "b_rm_delete"
  /\ pc' = [pc EXCEPT ![i] = "done"]
  /\ \/ /\ file' = FALSE
        /\ result' = [result EXCEPT ![i] = IF op[i] = "save" THEN err[i] ELSE "ok"]
     \/ /\ result' = [result EXCEPT ![i] = "deleteFile"]
        /\ UNCHANGED file
  /\ UNCHANGED <<store, nextKey, everKeys, fields, op, err, events, payload,
                 token, history>>

BaseStep(i) ==
  \/ BaseSetStateGet(i)
  \/ BaseSetStateUpdate(i)
  \/ BaseSetStateCreate(i)
  \/ BaseDownload(i)
  \/ BaseWriteFile(i)
  \/ BaseRemoveRecord(i)
  \/ BaseRemoveDelete(i)
  \/ Return(i)
  \/ Crash(i)

SeqLoadState(i) == Quiet(i) /\ loadState(i)
SeqBaseStartSave(i) == Quiet(i) /\ BaseStartSave(i)
SeqBaseStartRemove(i) == Quiet(i) /\ BaseStartRemove(i)

\* One instance of each class on the same identifier, each method running to
\* its end before the next call.
NextMixed ==
  \/ \E i \in {"a"} :
       \/ SeqConstruct(i)
       \/ SeqLoad(i)
       \/ SeqStartSave(i)
       \/ SeqStartRemove(i)
       \/ SeqBuild(i)
       \/ Step(i)
  \/ \E i \in Baseline :
       \/ SeqConstruct(i)
       \/ SeqLoadState(i)
       \/ SeqBaseStartSave(i)
       \/ SeqBaseStartRemove(i)
       \/ BaseStep(i)

SpecMixed == Init /\ [][NextMixed]_vars

----------------------------------------------------------------------------
(* Properties.                                                             *)

\* The instance has just completed the metadata call of remove().
RemoveUpdated(i) ==
  /\ pc[i] = "rm_update"
  /\ pc'[i] \in {"rm_delete", "done"}
  /\ result'[i] # "remove.updateByUuid"

\* The instance has just returned from buildDocumentserverPayload().
BuildReturns(i) == pc[i] = "idle" /\ pc'[i] = "built"

\* save() has thrown.
SaveThrew(i) == pc[i] = "done" /\ op[i] = "save" /\ result[i] # "ok"

\* save() has returned normally.
SaveReturned(i) == pc[i] = "done" /\ op[i] = "save" /\ result[i] = "ok"

\* C1: the key a remove() writes to an existing record is a key the record
\* never held before.
C1_RemoveRotatesToNewKey ==
  [][\A i \in Hardened :
       (RemoveUpdated(i) /\ store.exists)
         => /\ store'.exists
            /\ store'.state = "removed"
            /\ store'.key # NoKey
            /\ store'.key \notin everKeys]_vars

C1_Witness ==
  \E i \in Hardened :
    /\ pc[i] = "rm_delete"
    /\ op[i] = "remove"
    /\ preKey[i] # NoKey
    /\ store.state = "removed"
    /\ store.key # preKey[i]

\* C2 as claimed: whenever buildDocumentserverPayload() returns on an
\* instance that holds a key, the key in the payload is the key stored in the
\* record at that moment.
C2_PayloadKeyIsStoredKey ==
  [][\A i \in Hardened :
       (BuildReturns(i) /\ store.exists /\ key[i] # NoKey)
         => payload'[i].key = store'.key]_vars

\* C2 as amended: the payload carries the instance's own key, which is the
\* stored key as long as the stored key has not been written since the
\* instance read it in load() or created the record.
C2_PayloadKeyIsInstanceKey ==
  [][\A i \in Hardened :
       BuildReturns(i)
         => /\ payload'[i].built
            /\ payload'[i].key = key[i]
            /\ keySync[i] => (store'.exists /\ payload'[i].key = store'.key)]_vars

C2_Witness ==
  \E i \in Hardened :
    /\ pc[i] = "built"
    /\ keySync[i]
    /\ payload[i].key # NoKey
    /\ payload[i].key = store.key

\* C3: when save() has thrown, the record exists and its state is removed.
C3_FailedSaveEndsRemoved ==
  \A i \in Hardened :
    SaveThrew(i) => (store.exists /\ store.state = "removed")

\* C4: when save() has thrown, there is no file at the cache path.
C4_FailedSaveLeavesNoFile ==
  \A i \in Hardened : SaveThrew(i) => ~file

\* C5: buildDocumentserverPayload() on an instance whose state is not
\* downloaded returns no payload that carries a key.
C5_NoKeyUnlessDownloaded ==
  \A i \in Hardened :
    (pc[i] = "built" /\ state[i] # "downloaded")
      => (~payload[i].built \/ payload[i].key = NoKey)

\* C6 as claimed, for an instance that loaded the record when it was removed
\* (load() is the only place where this.state becomes removed): between two
\* method calls, isDownloaded() is true exactly when the file exists and the
\* stored state is downloaded.
C6_IsDownloadedIffStoredState ==
  (\A j \in Hardened : pc[j] = "idle")
    => \A i \in Hardened :
         state[i] = "removed"
           => (isDownloaded(i) <=>
                 (file /\ store.exists /\ store.state = "downloaded"))

\* C6 as amended: isDownloaded() tests the instance's own state, so it tells
\* whether the file exists and the stored state is downloaded as long as the
\* stored state has not been written since the instance read or wrote it.
C6_IsDownloadedIffOwnState ==
  \A i \in Hardened :
    stateSync[i]
      => (isDownloaded(i) <=>
            (file /\ store.exists /\ store.state = "downloaded"))

C6_Witness ==
  \E i \in Hardened :
    /\ pc[i] = "idle"
    /\ stateSync[i]
    /\ isDownloaded(i)
    /\ store.state = "downloaded"

\* C7: when save() has thrown, the record is removed with a rotated key, the
\* file is gone, exactly one document-download-failed notification with the
\* caught error has been published and that error is the one thrown.
C7_FailurePropagatedCompletely ==
  \A i \in Hardened :
    SaveThrew(i)
      => /\ store.exists
         /\ store.state = "removed"
         /\ store.key # NoKey
         /\ store.key # preKey[i]
         /\ ~file
         /\ events[i] = <<[topic |-> "DOCUMENT_DOWNLOAD_FAILED", error |-> err[i]]>>
         /\ result[i] = err[i]

\* remove() was entered on a record with a key and is past its metadata call.
RemovePastUpdate(i) ==
  /\ preKey[i] # NoKey
  /\ \/ pc[i] = "rm_delete"
     \/ pc[i] = "done" /\ result[i] # "remove.updateByUuid"

\* C8: once remove() is at or past the deletion of the file, the stored key
\* is no longer the key stored when remove() was entered.
C8_RotationBeforeDeletion ==
  \A i \in Hardened :
    RemovePastUpdate(i) => (store.exists /\ store.key # preKey[i])

C8_Witness ==
  \E i \in Hardened :
    /\ pc[i] = "done"
    /\ op[i] = "remove"
    /\ result[i] = "ok"
    /\ preKey[i] # NoKey
    /\ state[i] = "downloaded"
    /\ ~file
    /\ store.state = "removed"
    /\ store.key # preKey[i]

\* C9: when save() returns normally for an identifier that had no record,
\* the record is downloaded with the instance's key, the file exists,
\* isDownloaded() is true and document-downloaded is what was published.
C9_FetchRoundTrip ==
  \A i \in Hardened :
    (SaveReturned(i) /\ ~hadRecord[i])
      => /\ store.exists
         /\ store.state = "downloaded"
         /\ store.key # NoKey
         /\ store.key = key[i]
         /\ file
         /\ isDownloaded(i)
         /\ events[i] = <<[topic |-> "DOCUMENT_DOWNLOADED", error |-> "none"]>>

C9_Witness ==
  \E i \in Hardened :
    /\ SaveReturned(i)
    /\ ~hadRecord[i]
    /\ isDownloaded(i)
    /\ store.state = "downloaded"

\* C10 as claimed: a record that exists is never deleted.
C10_RecordNeverDeleted == [][store.exists => store'.exists]_vars

\* C10 as amended: the only step that deletes a record is the baseline
\* remove(); no step of the hardened class does.
C10_OnlyBaselineRemoveDeletes ==
  [][(store.exists /\ ~store'.exists)
       => \E c \in Baseline : pc[c] = "b_rm_remove" /\ pc'[c] = "b_rm_delete"]_vars

C10_Witness ==
  \E i \in Hardened :
    /\ pc[i] = "done"
    /\ op[i] = "remove"
    /\ result[i] = "ok"
    /\ hadRecord[i]
    /\ store.exists
    /\ store.state = "removed"

\* The instance completes an awaited call of save() that did not fail.
SaveStep(i) ==
  /\ op[i] = "save"
  /\ pc[i] \in {"dl", "wr", "ss_get", "ss_update", "ss_create", "pm"}
  /\ pc'[i] \notin {pc[i], "idle"}
  /\ err'[i] = "none"

\* The instance completes the update of setState() on the record it found.
SetStateUpdated(i) == pc[i] = "ss_update" /\ pc'[i] = "pm" /\ store.exists

\* C11: no step of a save() that does not fail changes the key of a record
\* that exists, the update of setState() changes the state of the record and
\* nothing else, and a save() called on a downloaded record ends with the
\* file in place and the record downloaded.
C11_RefetchKeepsKey ==
  [][\A i \in Hardened :
       /\ (SaveStep(i) /\ store.exists)
            => (store'.exists /\ store'.key = store.key)
       /\ SetStateUpdated(i) => store' = [store EXCEPT !.state = state[i]]
       /\ (SaveStep(i) /\ pc[i] = "wr") => file'
       /\ (SaveStep(i) /\ pc'[i] = "done" /\ foundState[i] = "downloaded")
            => (result'[i] = "ok" /\ file' /\ store'.state = "downloaded")]_vars

C11_Witness ==
  \E i \in Hardened :
    /\ SaveReturned(i)
    /\ foundState[i] = "downloaded"
    /\ file
    /\ store.state = "downloaded"
    /\ store.key # NoKey
    /\ store.key \in everKeys

\* C13 as claimed: the update by which save() makes a removed record
\* downloaded again stores a key other than the one the record held.
C13_RefetchAssignsNewKey ==
  [][\A i \in Hardened :
       (SetStateUpdated(i) /\ foundState[i] = "removed")
         => store'.key # store.key]_vars

\* C13 as amended: a save() that does not fail on a record found removed draws
\* no key and leaves the stored key as it is, which is the key the preceding
\* remove() wrote; it ends with the record downloaded under that key.
C13_RefetchKeepsRotatedKey ==
  [][\A i \in Hardened :
       (SaveStep(i) /\ foundState[i] = "removed")
         => /\ store.key # NoKey
            /\ store'.exists
            /\ store'.key = store.key
            /\ nextKey' = nextKey
            /\ pc'[i] = "done" => store'.state = "downloaded"]_vars

C13_Witness ==
  \E i \in Hardened :
    /\ SaveReturned(i)
    /\ foundState[i] = "removed"
    /\ store.state = "downloaded"
    /\ store.key # NoKey

\* C14: buildDocumentserverPayload() attaches a token exactly when the
\* signature is enabled, the token is computed from the payload it returns,
\* and that payload is the same whether the signature is enabled or not.
C14_TokenIffEnabled ==
  [][\A i \in Hardened :
       BuildReturns(i)
         => /\ token'[i].present <=> token'[i].enable
            /\ token'[i].present => token'[i].over = payload'[i]
            /\ payload'[i] = buildDocumentserverPayload(i)]_vars

C14_Witness ==
  \E i \in Hardened :
    /\ pc[i] = "built"
    /\ token[i].enable
    /\ token[i].present
    /\ token[i].over = payload[i]
    /\ payload[i].key # NoKey

\* C15 as claimed: while a save() that found the record not downloaded waits
\* for the metadata refresh, the record is not downloaded.
C15_DownloadedAfterRefresh ==
  \A i \in Hardened :
    (op[i] = "save" /\ pc[i] = "pm" /\ foundState[i] # "downloaded")
      => ~(store.exists /\ store.state = "downloaded")

\* C15 as amended: a save() that found the record not downloaded writes the
\* state downloaded after the file is written and before the metadata refresh,
\* so the record is downloaded while the refresh is awaited; the notification
\* document-downloaded is published when the refresh has succeeded, as the
\* last step.
C15_DownloadedAfterWrite ==
  \A i \in Hardened :
    (op[i] = "save" /\ foundState[i] # "downloaded")
      => /\ pc[i] \in {"dl", "wr", "ss_get", "ss_update", "ss_create"}
              => (~(store.exists /\ store.state = "downloaded") /\ events[i] = <<>>)
         /\ pc[i] = "pm"
              => /\ store.exists
                 /\ store.state = "downloaded"
                 /\ file
                 /\ events[i] = <<>>
         /\ events[i] # <<>>
              => (pc[i] = "done" /\ (result[i] = "ok" => meta[i].named))

C15_Witness ==
  \E i \in Hardened :
    /\ op[i] = "save"
    /\ pc[i] = "pm"
    /\ foundState[i] = "none"
    /\ ~meta[i].named
    /\ store.state = "downloaded"
    /\ file

\* C16: when the baseline save() has thrown, the stored record is not in
\* state downloading.
C16_FailedSaveNotDownloading ==
  \A c \in Baseline :
    SaveThrew(c) => ~(store.exists /\ store.state = "downloading")

\* C17: when save() has thrown after populateMetadata() failed, the record is
\* removed with a rotated key and there is no file.
C17_MetadataFailureRolledBack ==
  \A i \in Hardened :
    (SaveThrew(i) /\ err[i] \in {"Document not found", "getNode"})
      => /\ store.exists
         /\ store.state = "removed"
         /\ store.key # preKey[i]
         /\ ~file

\* C18: with every method running to its end before the next call, a record
\* in state downloaded has its file, between the steps of a method too.
C18_DownloadedImpliesFile ==
  (store.exists /\ store.state = "downloaded") => file

C18_Witness ==
  \E i \in Hardened :
    /\ op[i] = "save"
    /\ pc[i] = "rm_update"
    /\ err[i] = "getNode"
    /\ store.state = "downloaded"
    /\ file

\* The notification document-download-failed has been published; the
\* document it carries is the instance.
FailurePublished(i) ==
  /\ pc[i] = "done"
  /\ events[i] # <<>>
  /\ events[i][1].topic = "DOCUMENT_DOWNLOAD_FAILED"

====
